---- MODULE Spec2Model ----
(***************************************************************************)
(* Model of the storage access layer of scientific-literature-intelligence *)
(* (src/database/db_manager.py): DatabaseManager.get_connection and        *)
(* DatabaseManager.get_transaction (generator context managers), and       *)
(* ConnectionPool.get_connection / return_connection.                      *)
(*                                                                         *)
(* Several callers (threads) open scopes, run a body against the yielded   *)
(* handle, and leave the scope; they also call the pool directly.  The     *)
(* body is caller code and is drawn nondeterministically: it may execute a *)
(* write on the yielded handle, raise, open a nested scope, or finish.     *)
(*                                                                         *)
(* Further specifications cover DatabaseManager construction and           *)
(* _initialize_database with SchemaValidator (SchemaSpec), and             *)
(* QueryPerformanceMonitor (MonitorSpec), the settings classes of          *)
(* src/src/config.py (ConfigSpec) and SampleDataGenerator of               *)
(* src/database/sample_data_generator.py (GeneratorSpec).                  *)
(***************************************************************************)
EXTENDS Integers, Sequences, FiniteSets, TLC

\* ---------------------------------------------------------------- bounds
NumCallers == 2
MaxPool == 2
MaxHeld == 3
MaxDepth == 2
MaxInitRuns == 2
MaxCalls == 2

\* ConnectionPool.__init__(self, db_path, pool_size=10)
DefaultPoolSize == 10

\* scopes and pool handles per caller when both are used side by side
MaxShared == 1
Callers == 1..NumCallers
Rows == {"a", "b"}
\* errors a body can raise itself (or pass on from a nested scope): Exception
\* subclasses and a BaseException that `except Exception` does not catch
BodyErrors == {"ValueError", "AttributeError", "KeyboardInterrupt"}

VARIABLES pool, acq, lastAcq, stack, last, store

\* the pool's further calls: whether close_all was called (and how the call
\* ended), and the last return_connection call
VARIABLES closeRes, lastRel

\* the database file's surroundings and the manager built on them
VARIABLES fs, mgr, init, report

\* a QueryPerformanceMonitor and its calls
VARIABLES query_stats, calls, lastExec, lastReport

\* the settings object built last (config.py) and the cache directory
\* (absent, a directory, or a regular file in its place)
VARIABLES settings, cacheDir

\* the last call of the sample data generator
VARIABLES lastGen

poolAux == <<closeRes, lastRel>>
schemaVars == <<fs, mgr, init, report>>
monVars == <<query_stats, calls, lastExec, lastReport>>
cfgVars == <<settings, cacheDir>>
genVars == <<lastGen>>
extraVars == <<cfgVars, genVars>>
vars == <<pool, acq, lastAcq, stack, last, store, poolAux, schemaVars, monVars,
          extraVars>>

\* ------------------------------------------------------- Python values
\* the value None in the place of a connection handle
NoneConn == [none |-> TRUE, id |-> 0, autocommit |-> FALSE]

\* truth value of `if conn:`
Truthy(conn) == ~conn.none

\* `except Exception` matches Exception subclasses only
IsException(err) ==
    err \in {"ValueError", "AttributeError", "TypeError", "MemoryError",
             "UnicodeDecodeError", "IsADirectoryError", "FileExistsError"}

\* ------------------------------------------------------- ConnectionPool
\* ConnectionPool.__init__: stores db_path and pool_size, nothing else
ConnectionPool_init(db_path, pool_size) ==
    [db_path |-> db_path, pool_size |-> pool_size]

\* a pool that creates a connection on every call, without any limit
PoolGetFresh(self) ==
    [res |-> [none |-> FALSE, id |-> 1, autocommit |-> FALSE], raised |-> "none"]

\* a pool that hands its first slot's connection to every caller, whoever
\* holds it already
PoolGetShared(self) ==
    [res |-> [none |-> FALSE, id |-> 0, autocommit |-> FALSE], raised |-> "none"]

\* ConnectionPool.get_connection: the body is `pass`, the call returns None
ConnectionPool_get_connection(self) ==
    [res |-> NoneConn, raised |-> "none"]

\* a pool that gives up a slot with every connection handed back
PoolShrinkOnReturn(self, conn) ==
    [self EXCEPT !.pool_size = IF @ > 0 THEN @ - 1 ELSE 0]

\* ConnectionPool.return_connection: the body is `pass`, the pool is unchanged
ConnectionPool_return_connection(self, conn) == self

\* the connections a pool keeps: __init__ sets up no collection (`pass`) and
\* no method adds to one
PoolIdle(self) == {}

\* pool.close_all(): the class defines no such method, the attribute lookup
\* raises AttributeError and the pool is unchanged
ConnectionPool_close_all(self) == [pool |-> self, raised |-> "AttributeError"]

\* a connection a caller opened itself (the pool hands out None only)
OwnConnection(t) == [none |-> FALSE, id |-> t, autocommit |-> FALSE]

\* ------------------------------------------------------ DatabaseManager
\* a manager that opens a real connection in autocommit mode
ConnectAutocommit(t) == [none |-> FALSE, id |-> t, autocommit |-> TRUE]

\* get_connection, line 110: `conn = None  # Replace with actual connection`
Connect(t) == NoneConn

\* get_transaction, line 147: BEGIN is `pass`
TxnBegin(ev) == ev

\* get_transaction, line 155: COMMIT is `pass`
TxnCommit(c) == c

\* get_transaction, line 162: ROLLBACK is `pass`
TxnRollback(c) == c

\* get_transaction, line 168: bare `raise`
TxnReraise(err) == err

\* an except clause that swallows the error
Swallow(err) == "none"

\* get_connection, line 127: bare `raise`
ConnReraise(err) == err

\* conn.execute(...) issued by the body on the yielded handle.
\* c = [conn, pending, ev, err, db]: None has no attribute execute; a real
\* connection writes through (autocommit) or into its pending transaction.
Execute(c, row) ==
    IF ~Truthy(c.conn)
    THEN [c EXCEPT !.err = "AttributeError"]
    ELSE IF c.conn.autocommit
         THEN [c EXCEPT !.db = c.db \cup {row}]
         ELSE [c EXCEPT !.pending = c.pending \cup {row}]

\* get_transaction, lines 150-168: what runs after the yield at line 149
get_transaction_exit(c) ==
    IF c.err = "none"
    THEN TxnCommit(c)
    ELSE IF IsException(c.err)
         THEN [TxnRollback(c) EXCEPT !.err = TxnReraise(c.err)]
         ELSE c

\* get_connection, lines 120-127: except Exception: if conn: conn.rollback(); raise
get_connection_except(c) ==
    IF c.err # "none" /\ IsException(c.err)
    THEN [c EXCEPT !.pending = IF Truthy(c.conn) THEN {} ELSE c.pending,
                   !.ev = IF Truthy(c.conn) THEN Append(c.ev, "rollback") ELSE c.ev,
                   !.err = ConnReraise(c.err)]
    ELSE c

\* a finally clause that closes without looking at conn: on None the call
\* raises AttributeError, which takes the place of the error under way
CloseUnguarded(c) ==
    IF Truthy(c.conn)
    THEN [c EXCEPT !.pending = {}, !.ev = Append(c.ev, "close")]
    ELSE [c EXCEPT !.ev = Append(c.ev, "close"), !.err = "AttributeError"]

\* get_connection, lines 128-130: finally: if conn: conn.close()
get_connection_finally(c) ==
    IF Truthy(c.conn)
    THEN [c EXCEPT !.pending = {}, !.ev = Append(c.ev, "close")]
    ELSE c

\* get_connection, lines 120-130: what runs after the yield at line 118
get_connection_exit(c) == get_connection_finally(get_connection_except(c))

\* Errors that can arise inside get_connection's try block before the yield
\* (lines 105-116).  Creating the connection is `conn = None`, which raises
\* nothing itself, so these are the errors that arrive from outside: one that
\* `except Exception` catches and one it does not.
CreateErrors == {"MemoryError", "KeyboardInterrupt"}

\* get_connection, lines 104-130, when err is raised before the yield: conn
\* still is the None of line 104 and the generator runs its except and
\* finally clauses
get_connection_enter_fails(err, db) ==
    get_connection_exit([conn |-> NoneConn, pending |-> {}, ev |-> <<>>,
                         err |-> err, db |-> db])

\* the whole exit of a scope of the given kind
ScopeExit(kind, c) ==
    IF kind = "txn"
    THEN get_connection_exit(get_transaction_exit(c))
    ELSE get_connection_exit(c)

\* ------------------------------------------- initialization and schema
\* validate_schema, lines 202-206: expected_tables
ExpectedTables ==
    {"authors", "papers", "datasets", "paper_authors", "citations",
     "paper_datasets", "research_trends", "collaboration_networks"}

\* What is on disk: the parent directory of db_path (absent, a directory, or
\* a regular file in its place), schema.sql beside the database file, and the
\* live catalog of the database file (tables, whether the indexes and the
\* full-text-search table exist).  schema.sql is one of
\*   "absent"       no such path
\*   "valid"        a text file holding the schema script
\*   "not_sql"      a text file whose content is not SQL
\*   "undecodable"  a file whose bytes are not text in the default encoding
\*   "directory"    a directory of that name
SchemaFiles == {"absent", "valid", "not_sql", "undecodable", "directory"}

FsStates ==
    {[dir |-> "absent", schema |-> "absent", tables |-> {},
      indexes |-> FALSE, fts |-> FALSE],
     [dir |-> "file", schema |-> "absent", tables |-> {},
      indexes |-> FALSE, fts |-> FALSE]}
    \cup
    [dir : {"dir"}, schema : SchemaFiles,
     tables : SUBSET ExpectedTables, indexes : BOOLEAN, fts : BOOLEAN]

\* no DatabaseManager object yet
NoManager ==
    [constructed |-> FALSE, db_path |-> "", enable_wal |-> FALSE,
     connection |-> NoneConn, logger |-> "None"]

\* __init__, lines 47-55: the attributes set before initialization
DatabaseManager_attrs(db_path, enable_wal) ==
    [constructed |-> TRUE, db_path |-> db_path, enable_wal |-> enable_wal,
     connection |-> NoneConn, logger |-> "None"]

\* mkdir without exist_ok: fails when the directory is already there
MkdirStrict(d) ==
    IF d.dir = "absent"
    THEN [fs |-> [d EXCEPT !.dir = "dir"], raised |-> "none"]
    ELSE [fs |-> d, raised |-> "FileExistsError"]

\* line 67: self.db_path.parent.mkdir(parents=True, exist_ok=True)
Mkdir(d) ==
    IF d.dir = "file"
    THEN [fs |-> d, raised |-> "FileExistsError"]
    ELSE [fs |-> [d EXCEPT !.dir = "dir"], raised |-> "none"]

\* lines 82-92: when schema_path.exists() (true of a file and of a directory)
\* the path is opened in text mode and read; open() of a directory raises
\* IsADirectoryError (line 85), f.read() of bytes that are not text raises
\* UnicodeDecodeError (line 86).  Executing what was read is `pass`, so the
\* content of a readable file makes no difference and the disk is not changed.
LoadSchema(d) ==
    [fs |-> d,
     raised |-> IF d.schema = "directory" THEN "IsADirectoryError"
                ELSE IF d.schema = "undecodable" THEN "UnicodeDecodeError"
                ELSE "none"]

\* a scope on a connection that the method opens itself and never closes
MethodScopeLeaky(err) ==
    [conn |-> OwnConnection(0), ev |-> <<>>, err |-> err, open |-> 1]

\* The get_connection scope a method of the storage layer runs its body in:
\* the handle it gets, what the exit code does, and whether a connection is
\* still open afterwards.
MethodScope(err) ==
    LET conn == Connect(0)
        c == get_connection_exit([conn |-> conn, pending |-> {}, ev |-> <<>>,
                                  err |-> err, db |-> {}])
    IN [conn |-> conn, ev |-> c.ev, err |-> c.err,
        open |-> IF Truthy(conn) /\ (\A i \in DOMAIN c.ev : c.ev[i] # "close")
                 THEN 1 ELSE 0]

\* _initialize_database, lines 60-92: mkdir, then inside a get_connection
\* scope the WAL and pragma steps (`pass`) and the schema script; an error
\* of the read leaves through the scope's except and finally clauses
DatabaseManager_initialize_database(self, d) ==
    LET m == Mkdir(d)
    IN IF m.raised # "none"
       THEN [fs |-> d, raised |-> m.raised, open |-> 0]
       ELSE LET l == LoadSchema(m.fs)
                sc == MethodScope(l.raised)
            IN [fs |-> l.fs, raised |-> sc.err, open |-> sc.open]

\* a validator that creates the tables it finds missing
ValidateAndRepair(self, d) ==
    [res |-> [valid |-> FALSE, issues |-> {}, table_count |-> 0,
              index_count |-> 0, fts_enabled |-> FALSE],
     fs |-> [d EXCEPT !.tables = ExpectedTables], mgr |-> self,
     raised |-> "none", open |-> 0]

\* validate_schema, lines 182-226: the three checks are `pass`; the initial
\* validation_result is returned as it is
SchemaValidator_validate_schema(self, d) ==
    LET sc == MethodScope("none")
    IN [res |-> [valid |-> FALSE, issues |-> {}, table_count |-> 0,
                 index_count |-> 0, fts_enabled |-> FALSE],
        fs |-> d, mgr |-> self, raised |-> sc.err, open |-> sc.open]

\* get_schema_info, lines 228-248: the collection step is `pass`; the initial
\* schema_info is returned as it is
SchemaValidator_get_schema_info(self, d) ==
    LET sc == MethodScope("none")
    IN [res |-> [tables |-> <<>>, indexes |-> <<>>, views |-> <<>>,
                 triggers |-> <<>>],
        fs |-> d, mgr |-> self, raised |-> sc.err, open |-> sc.open]

FreshDisk ==
    [dir |-> "absent", schema |-> "absent", tables |-> {},
     indexes |-> FALSE, fts |-> FALSE]

\* What is kept of the runs of _initialize_database: how many there were,
\* the outcome of the last and of the first, whether the first made the
\* directory, the connections the last left open, the disk the first left
\* behind and the disk the last started on.
NoInit == [runs |-> 0, res |-> "none", firstRes |-> "none", created |-> FALSE,
           open |-> 0, first |-> FreshDisk, before |-> FreshDisk]

NoReport == [op |-> "none", raised |-> "none", open |-> 0]

\* the schema variables once DatabaseManager(db_path) has returned on an
\* empty disk: __init__ has set the attributes (enable_wal defaults to True)
\* and has run _initialize_database, which made the directory
ManagerBuilt ==
    /\ fs = [FreshDisk EXCEPT !.dir = "dir"]
    /\ mgr = DatabaseManager_attrs("db", TRUE)
    /\ init = [NoInit EXCEPT !.runs = 1, !.res = "ok", !.firstRes = "ok",
                             !.created = TRUE, !.first = [FreshDisk EXCEPT !.dir = "dir"]]
    /\ report = NoReport

\* the schema variables once DatabaseManager(db_path) has returned on a disk
\* without schema.sql and the disk has been written since: any schema.sql and
\* any catalog may be there when the manager is used next
ManagerBuiltEarlier ==
    /\ fs \in FsStates
    /\ fs.dir = "dir"
    /\ mgr = DatabaseManager_attrs("db", TRUE)
    /\ init = [NoInit EXCEPT !.runs = 1, !.res = "ok", !.firstRes = "ok",
                             !.created = TRUE,
                             !.first = [FreshDisk EXCEPT !.dir = "dir"]]
    /\ report = NoReport

\* the schema variables while no manager is in use
SchemaIdle ==
    /\ fs = FreshDisk
    /\ mgr = NoManager
    /\ init = NoInit
    /\ report = NoReport

\* ------------------------------------------------ QueryPerformanceMonitor
\* query texts a caller passes ("bad" is not valid SQL) and parameter tuples
Queries == {"q1", "q2", "bad"}
Params == {"p1", "p2"}

\* __init__, line 261: self.query_stats = {}
EmptyStats == [q \in {} |-> [count |-> 0]]

\* a report that queries the database again
ReportFromDatabase(stats) ==
    [report |-> <<>>, query_stats |-> stats, scopes |-> 1]

\* get_performance_report, lines 305-316: `return {}`; no get_connection call
QueryPerformanceMonitor_get_performance_report(stats) ==
    [report |-> <<>>, query_stats |-> stats, scopes |-> 0]

\* execute_with_monitoring, lines 263-303: one get_connection scope whose body
\* runs no statement (executed: the number of statements run on the handle),
\* sets results = [] and returns it; query_stats is not touched
QueryPerformanceMonitor_execute_with_monitoring(stats, query, params) ==
    LET sc == MethodScope("none")
    IN [rows |-> <<>>, raised |-> sc.err, query_stats |-> stats,
        scopes |-> 1, open |-> sc.open, executed |-> 0]

NoExec == [op |-> "none", query |-> "", params |-> "", rows |-> <<>>,
           raised |-> "none", open |-> 0, executed |-> 0]

NoPerf == [op |-> "none", report |-> <<>>, scopes |-> 0,
           statsBefore |-> EmptyStats, statsAfter |-> EmptyStats]

\* the monitor's variables before any call
MonitorIdle ==
    /\ query_stats = EmptyStats
    /\ calls = [q \in Queries |-> 0]
    /\ lastExec = NoExec
    /\ lastReport = NoPerf

\* ------------------------------------------------------------- settings
\* config.py, line 23: pool_size: int = Field(default=5, ge=1, le=20)
PoolSizeMin == 1
PoolSizeMax == 20
PoolSizeDefault == 5

\* how far beyond the permitted range the supplied values go
PoolSizeMargin == 2

\* a value supplied for a field (keyword argument or environment variable),
\* or none supplied
NotGiven == [given |-> FALSE, v |-> 0]
Given(n) == [given |-> TRUE, v |-> n]

PoolSizeInputs ==
    {NotGiven} \cup
    {Given(n) : n \in (PoolSizeMin - PoolSizeMargin)..(PoolSizeMax + PoolSizeMargin)}

\* a field that checks its lower bound only
PoolSizeNoUpperBound(v) == v >= PoolSizeMin

\* the constraints ge=1, le=20 of the field
DatabaseSettings_pool_size_valid(v) == v >= PoolSizeMin /\ v <= PoolSizeMax

\* DatabaseSettings(...) on disk d.  The fields are validated in the order of
\* their declaration: the validator of path (lines 27-33) makes the parent
\* directory of the database file, and its FileExistsError ends the call at
\* once; then a supplied pool_size is checked (the default is taken when none
\* is supplied).  A failed validation yields no object.
DatabaseSettings_init(arg, d) ==
    LET m == Mkdir(d)
    IN IF m.raised # "none"
       THEN [constructed |-> FALSE, raised |-> m.raised, pool_size |-> 0, fs |-> d]
       ELSE IF ~arg.given
            THEN [constructed |-> TRUE, raised |-> "none",
                  pool_size |-> PoolSizeDefault, fs |-> m.fs]
            ELSE IF DatabaseSettings_pool_size_valid(arg.v)
                 THEN [constructed |-> TRUE, raised |-> "none",
                       pool_size |-> arg.v, fs |-> m.fs]
                 ELSE [constructed |-> FALSE, raised |-> "ValidationError",
                       pool_size |-> 0, fs |-> m.fs]

\* CacheSettings(), lines 83-101: the validator of dir makes the cache
\* directory (mkdir(parents=True, exist_ok=True))
CacheSettings_init(cache) ==
    IF cache = "file"
    THEN [raised |-> "FileExistsError", cache |-> cache]
    ELSE [raised |-> "none", cache |-> "dir"]

\* str.lower() on the letters that occur in the environment names
LowerChar(ch) ==
    CASE ch = "P" -> "p"
      [] ch = "R" -> "r"
      [] ch = "O" -> "o"
      [] ch = "D" -> "d"
      [] ch = "E" -> "e"
      [] ch = "V" -> "v"
      [] OTHER -> ch

\* a string is the sequence of its characters
Lower(str) == [i \in DOMAIN str |-> LowerChar(str[i])]

Prod == <<"p", "r", "o", "d">>
Production == <<"p", "r", "o", "d", "u", "c", "t", "i", "o", "n">>

\* every way of writing "prod" in upper and lower case
ProdSpellings ==
    {<<a, b, c, d>> : a \in {"p", "P"}, b \in {"r", "R"},
                      c \in {"o", "O"}, d \in {"d", "D"}}

\* values of Settings.environment
Environments ==
    ProdSpellings \cup
    {Production,
     <<"P", "R", "O", "D", "u", "c", "t", "i", "o", "n">>,
     <<"P", "r", "o", "d", "u", "c", "t", "i", "o", "n">>,
     <<"d", "e", "v", "e", "l", "o", "p", "m", "e", "n", "t">>,
     <<"d", "e", "v">>, <<"D", "E", "V">>,
     <<"p", "r", "o">>, <<"p", "r", "o", "d", "s">>, <<>>}

\* config.py, line 124: the default of SecuritySettings.secret_key
DevSecretKey == "dev-secret-key-change-in-production"
SecretKeys == {DevSecretKey, "Dev-Secret-Key-Change-In-Production", "s3cret"}

\* a check that compares the environment name as it is written
IsProductionCaseSensitive(environment) == environment \in {Production, Prod}

\* Settings.is_production, lines 207-210
Settings_is_production(environment) == Lower(environment) \in {Production, Prod}

\* Settings.model_post_init, lines 212-220
Settings_model_post_init(environment, debug, secret_key) ==
    IF Settings_is_production(environment)
    THEN IF secret_key = DevSecretKey
         THEN [raised |-> "ValueError", msg |-> "SECRET_KEY must be changed in production"]
         ELSE IF debug
              THEN [raised |-> "ValueError", msg |-> "DEBUG must be False in production"]
              ELSE [raised |-> "none", msg |-> ""]
    ELSE [raised |-> "none", msg |-> ""]

\* pydantic reports a ValueError raised during validation as a
\* ValidationError
Wrapped(err) == IF err = "ValueError" THEN "ValidationError" ELSE err

\* Settings(...): the sections are built by their default factories in the
\* order of the fields (line 192: database, from the environment variables;
\* line 196: cache); an error of a factory ends the call.  Then
\* model_post_init runs, and its ValueError reaches the caller wrapped in a
\* ValidationError (cause: the message of the wrapped error).
Settings_init(environment, debug, secret_key, pool_arg, d, cache) ==
    LET db == DatabaseSettings_init(pool_arg, d)
        ch == CacheSettings_init(cache)
        post == Settings_model_post_init(environment, debug, secret_key)
    IN IF db.raised # "none"
       THEN [constructed |-> FALSE, raised |-> db.raised, cause |-> "",
             pool_size |-> 0, fs |-> db.fs, cache |-> cache]
       ELSE IF ch.raised # "none"
            THEN [constructed |-> FALSE, raised |-> ch.raised, cause |-> "",
                  pool_size |-> 0, fs |-> db.fs, cache |-> ch.cache]
            ELSE [constructed |-> post.raised = "none",
                  raised |-> Wrapped(post.raised), cause |-> post.msg,
                  pool_size |-> IF post.raised = "none" THEN db.pool_size ELSE 0,
                  fs |-> db.fs, cache |-> ch.cache]

\* pydantic's ValidationError is a subclass of ValueError
IsValueError(err) == err \in {"ValueError", "ValidationError"}

\* the values of DATABASE_POOL_SIZE under which Settings objects are built
SettingsPoolInputs == {NotGiven, Given(PoolSizeMin - 1), Given(PoolSizeMax)}

NoSettings ==
    [op |-> "none", arg |-> NotGiven, constructed |-> FALSE, raised |-> "none",
     pool_size |-> 0]

\* what can be in the place of a directory
DirStates == {"absent", "dir", "file"}

\* no settings object has been built
ConfigIdle ==
    /\ settings = NoSettings
    /\ cacheDir = "absent"

\* ------------------------------------------------- SampleDataGenerator
\* sample_data_generator.py, line 243: num_citations = random.randint(10, 60)
MinCitations == 10
MaxCitations == 60

\* longest list of papers handed to the generator
MaxPapers == 3

\* the outcomes of random.randint(10, 60) that are followed: both ends of the
\* range
CitationDraws == {MinCitations, MaxCitations}

\* A paper id is None or a value v.  Integer ids are their own v; the empty
\* title '' that populate_database passes as an id is, like 0, a falsy value
\* and stands as v = 0.
NoneId == [none |-> TRUE, v |-> 0]
Id(n) == [none |-> FALSE, v |-> n]
PaperIds == {Id(n) : n \in 0..1}

\* truth value of `if cited_id`
IdTruthy(x) == ~x.none /\ x.v # 0

\* line 253: `cited_id = None  # Replace with selection algorithm`
SelectCited(citing_id, paper_ids) == NoneId

\* a test that leaves out the check that a paper was selected
AcceptNotSelf(cited_id, citing_id) == cited_id # citing_id

\* line 255: `if cited_id and cited_id != citing_id:`
AcceptCitation(cited_id, citing_id) ==
    IdTruthy(cited_id) /\ cited_id # citing_id

\* the test of line 255 on a candidate entry
Accepted(citation) ==
    AcceptCitation(citation.cited_paper_id, citation.citing_paper_id)

\* lines 250-262: the inner loop of k iterations; each selects a paper and
\* appends an entry when the test accepts it (citation_type, a random label,
\* is left out of the entries)
CiteLoop(citing_id, paper_ids, k, citations) ==
    citations \o
    SelectSeq([j \in 1..k |-> [citing_paper_id |-> citing_id,
                               cited_paper_id |-> SelectCited(citing_id, paper_ids)]],
              Accepted)

\* lines 240-262: the outer loop from position i on; nums[i] is the value
\* random.randint returns for the i-th paper
RECURSIVE PaperLoop(_, _, _, _)
PaperLoop(paper_ids, nums, i, citations) ==
    IF i > Len(paper_ids) THEN citations
    ELSE PaperLoop(paper_ids, nums, i + 1,
                   CiteLoop(paper_ids[i], paper_ids, nums[i], citations))

\* generate_citation_network, lines 220-264
SampleDataGenerator_generate_citation_network(paper_ids, nums) ==
    PaperLoop(paper_ids, nums, 1, <<>>)

\* an argument for a count: an int n, or a value that is not an int
NotInt == [int |-> FALSE, n |-> 0]
Int_(n) == [int |-> TRUE, n |-> n]
CountInputs == {NotInt} \cup {Int_(n) : n \in 0..MaxPapers}

\* generate_authors, lines 82-119: range(num_authors) and one empty dict each
SampleDataGenerator_generate_authors(num_authors) ==
    IF ~num_authors.int
    THEN [res |-> <<>>, raised |-> "TypeError"]
    ELSE [res |-> [i \in 1..num_authors.n |-> "{}"], raised |-> "none"]

\* generate_papers, lines 165-218: range(num_papers) and one PaperData with
\* title "" each
SampleDataGenerator_generate_papers(num_papers) ==
    IF ~num_papers.int
    THEN [res |-> <<>>, raised |-> "TypeError"]
    ELSE [res |-> [i \in 1..num_papers.n |-> [title |-> Id(0)]], raised |-> "none"]

\* an except clause that prints the error and goes on
PopulateSwallow(err) == "none"

\* populate_database, lines 334-336: print the error, bare `raise`
PopulateReraise(err) == err

\* populate_database, lines 284-336: the body of the with statement.  The
\* insertion steps are `pass`: no statement is run on the handle.
PopulateBody(num_authors, num_papers, nums) ==
    LET a == SampleDataGenerator_generate_authors(num_authors)
        p == SampleDataGenerator_generate_papers(num_papers)
        ids == [i \in DOMAIN p.res |-> p.res[i].title]
        cs == SampleDataGenerator_generate_citation_network(ids, nums)
    IN IF a.raised # "none"
       THEN [failedStep |-> 1, err |-> PopulateReraise(a.raised), wrote |-> {},
             authors |-> 0, papers |-> 0, citations |-> 0]
       ELSE IF p.raised # "none"
            THEN [failedStep |-> 2, err |-> PopulateReraise(p.raised), wrote |-> {},
                  authors |-> Len(a.res), papers |-> 0, citations |-> 0]
            ELSE [failedStep |-> 0, err |-> "none", wrote |-> {},
                  authors |-> Len(a.res), papers |-> Len(p.res),
                  citations |-> Len(cs)]

\* populate_database, lines 266-336: one get_transaction scope around the body
SampleDataGenerator_populate_database(num_authors, num_papers, nums, db) ==
    LET b == PopulateBody(num_authors, num_papers, nums)
        c == ScopeExit("txn", [conn |-> Connect(0), pending |-> {},
                               ev |-> TxnBegin(<<>>), err |-> b.err, db |-> db])
    IN [scopes |-> 1, failedStep |-> b.failedStep, wrote |-> b.wrote,
        raised |-> c.err, ev |-> c.ev, db |-> c.db,
        authors |-> b.authors, papers |-> b.papers, citations |-> b.citations]

NoGenerated == [op |-> "none"]

\* the generator has not been called
GeneratorIdle == lastGen = NoGenerated

\* ---------------------------------------------------------------- state
\* a scope that has been entered and not yet left
NewFrame(kind, conn, ev, db) ==
    [kind |-> kind, conn |-> conn, pending |-> {}, wrote |-> {},
     ev |-> ev, snap |-> db]

\* what is known of the scope that was left last: the error its body raised,
\* whether the body raised it itself (explicit) or a call on the yielded
\* handle did, and what the caller of the scope received
Finished(f, bodyErr, explicit, c) ==
    [kind |-> f.kind, wrote |-> f.wrote,
     explicit |-> explicit, bodyErr |-> bodyErr,
     outcome |-> IF c.err = "none" THEN "ok" ELSE c.err,
     ev |-> c.ev, snap |-> f.snap, after |-> c.db]

NoLast ==
    [kind |-> "none", wrote |-> {}, explicit |-> FALSE, bodyErr |-> "none",
     outcome |-> "none", ev |-> <<>>, snap |-> {}, after |-> {}]

NoAcq ==
    [caller |-> 0, res |-> NoneConn, raised |-> "none", busy |-> 0,
     closed |-> FALSE]

NoRel == [op |-> "none", conn |-> NoneConn, inTxn |-> FALSE,
          healthy |-> TRUE, idleAfter |-> FALSE]

\* the new variables before anything has used them
PoolAuxInit ==
    /\ closeRes = "none"
    /\ lastRel = NoRel

\* a manager built on an empty disk and, beside it, a pool built with the
\* default pool_size
Init ==
    /\ pool = ConnectionPool_init("db", DefaultPoolSize)
    /\ acq = [t \in Callers |-> <<>>]
    /\ lastAcq = NoAcq
    /\ stack = [t \in Callers |-> <<>>]
    /\ last = NoLast
    /\ store = {}
    /\ PoolAuxInit
    /\ ManagerBuilt
    /\ MonitorIdle
    /\ ConfigIdle
    /\ GeneratorIdle

\* ----------------------------------------------------- pool operations
RECURSIVE SumLen(_)
SumLen(S) ==
    IF S = {} THEN 0
    ELSE LET x == CHOOSE y \in S : TRUE IN Len(acq[x]) + SumLen(S \ {x})

\* number of acquire results handed out and not yet given back
Outstanding == SumLen(Callers)

\* a caller calls pool.get_connection()
PoolGet(t) ==
    /\ Len(acq[t]) < MaxHeld
    /\ LET r == ConnectionPool_get_connection(pool)
       IN /\ acq' = [acq EXCEPT ![t] =
                        IF r.raised = "none" THEN Append(@, r.res) ELSE @]
          /\ lastAcq' = [caller |-> t, res |-> r.res, raised |-> r.raised,
                         busy |-> Outstanding, closed |-> closeRes # "none"]
    /\ UNCHANGED extraVars
    /\ UNCHANGED <<pool, stack, last, store, poolAux, schemaVars, monVars>>

\* a caller calls pool.return_connection(conn) with a handle it holds
PoolReturn(t) ==
    /\ acq[t] # <<>>
    /\ pool' = ConnectionPool_return_connection(pool, Head(acq[t]))
    /\ acq' = [acq EXCEPT ![t] = Tail(@)]
    /\ lastRel' = [op |-> "return", conn |-> Head(acq[t]), inTxn |-> FALSE,
                   healthy |-> TRUE,
                   idleAfter |-> Head(acq[t]) \in PoolIdle(pool')]
    /\ UNCHANGED extraVars
    /\ UNCHANGED <<lastAcq, stack, last, store, closeRes, schemaVars, monVars>>

\* a caller calls pool.return_connection(conn) with a connection of its own,
\* which may have a transaction pending or be unhealthy
PoolReturnOther(t, inTxn, healthy) ==
    /\ pool' = ConnectionPool_return_connection(pool, OwnConnection(t))
    /\ lastRel' = [op |-> "return", conn |-> OwnConnection(t), inTxn |-> inTxn,
                   healthy |-> healthy,
                   idleAfter |-> OwnConnection(t) \in PoolIdle(pool')]
    /\ UNCHANGED extraVars
    /\ UNCHANGED <<acq, lastAcq, stack, last, store, closeRes, schemaVars, monVars>>

\* a caller calls pool.close_all()
PoolCloseAll(t) ==
    /\ LET r == ConnectionPool_close_all(pool)
       IN /\ pool' = r.pool
          /\ closeRes' = r.raised
    /\ UNCHANGED extraVars
    /\ UNCHANGED <<acq, lastAcq, stack, last, store, lastRel, schemaVars, monVars>>

\* ---------------------------------------------------- scope operations
CanOpen(t) == Len(stack[t]) < MaxDepth

\* `with db.get_connection() as conn:` up to the yield at line 118
OpenConnection(t) ==
    /\ CanOpen(t)
    /\ stack' = [stack EXCEPT ![t] =
                    Append(@, NewFrame("conn", Connect(t), <<>>, store))]
    /\ UNCHANGED extraVars
    /\ UNCHANGED <<pool, acq, lastAcq, last, store, poolAux, schemaVars, monVars>>

\* `with db.get_transaction() as conn:` up to the yield at line 149
OpenTransaction(t) ==
    /\ CanOpen(t)
    /\ stack' = [stack EXCEPT ![t] =
                    Append(@, NewFrame("txn", Connect(t), TxnBegin(<<>>), store))]
    /\ UNCHANGED extraVars
    /\ UNCHANGED <<pool, acq, lastAcq, last, store, poolAux, schemaVars, monVars>>

\* `with db.get_connection() as conn:` when an error arises before the yield:
\* no scope is entered and the body does not run
OpenFails(t, e) ==
    /\ CanOpen(t)
    /\ LET c == get_connection_enter_fails(e, store)
       IN /\ last' = Finished(NewFrame("enter", NoneConn, <<>>, store), e, FALSE, c)
          /\ store' = c.db
    /\ UNCHANGED extraVars
    /\ UNCHANGED <<pool, acq, lastAcq, stack, poolAux, schemaVars, monVars>>

\* The innermost scope of caller t is left with error err ("none": normally):
\* its generator(s) resume after the yield and run to the end.  An error that
\* leaves a nested scope arrives in the enclosing body, which handles it or
\* raises it in turn (BodyRaise).
Leave(t, f, err, explicit, db) ==
    LET c == ScopeExit(f.kind, [conn |-> f.conn, pending |-> f.pending,
                                ev |-> f.ev, err |-> err, db |-> db])
    IN /\ stack' = [stack EXCEPT ![t] = SubSeq(@, 1, Len(@) - 1)]
       /\ last' = Finished(f, err, explicit, c)
       /\ store' = c.db

\* the body executes a write on the yielded handle; a call that raises ends
\* the body
BodyWrite(t, row) ==
    /\ stack[t] # <<>>
    /\ LET n == Len(stack[t])
           f == stack[t][n]
           r == Execute([conn |-> f.conn, pending |-> f.pending, ev |-> f.ev,
                         err |-> "none", db |-> store], row)
           g == [f EXCEPT !.wrote = f.wrote \cup {row}, !.pending = r.pending]
       IN IF r.err = "none"
          THEN /\ stack' = [stack EXCEPT ![t][n] = g]
               /\ store' = r.db
               /\ UNCHANGED last
          ELSE Leave(t, g, r.err, FALSE, r.db)
    /\ UNCHANGED extraVars
    /\ UNCHANGED <<pool, acq, lastAcq, poolAux, schemaVars, monVars>>

\* the body raises an error of its own
BodyRaise(t, e) ==
    /\ stack[t] # <<>>
    /\ Leave(t, stack[t][Len(stack[t])], e, TRUE, store)
    /\ UNCHANGED extraVars
    /\ UNCHANGED <<pool, acq, lastAcq, poolAux, schemaVars, monVars>>

\* the body finishes (falls off the end or returns early) and the scope is left
BodyReturn(t) ==
    /\ stack[t] # <<>>
    /\ Leave(t, stack[t][Len(stack[t])], "none", FALSE, store)
    /\ UNCHANGED extraVars
    /\ UNCHANGED <<pool, acq, lastAcq, poolAux, schemaVars, monVars>>

\* ------------------------------------------- initialization operations
\* one run of _initialize_database and what is remembered of it
RunInitialize(self) ==
    LET r == DatabaseManager_initialize_database(self, fs)
    IN /\ fs' = r.fs
       /\ init' = [runs |-> init.runs + 1, res |-> IF r.raised = "none" THEN "ok" ELSE r.raised,
                   firstRes |-> IF init.runs = 0
                                THEN (IF r.raised = "none" THEN "ok" ELSE r.raised)
                                ELSE init.firstRes,
                   created |-> IF init.runs = 0 THEN fs.dir = "absent"
                               ELSE init.created,
                   open |-> r.open,
                   first |-> IF init.runs = 0 THEN r.fs ELSE init.first,
                   before |-> fs]
       /\ mgr' = IF r.raised = "none" THEN self ELSE mgr

\* DatabaseManager(db_path, enable_wal): __init__ sets the attributes and
\* runs _initialize_database; if that raises, no manager comes into being
Construct(enable_wal) ==
    /\ ~mgr.constructed
    /\ init.runs < MaxInitRuns
    /\ RunInitialize(DatabaseManager_attrs("db", enable_wal))
    /\ UNCHANGED extraVars
    /\ UNCHANGED <<pool, acq, lastAcq, stack, last, store, poolAux, report, monVars>>

\* _initialize_database is run again on the manager
Reinitialize ==
    /\ mgr.constructed
    /\ init.runs < MaxInitRuns
    /\ RunInitialize(mgr)
    /\ UNCHANGED extraVars
    /\ UNCHANGED <<pool, acq, lastAcq, stack, last, store, poolAux, report, monVars>>

\* SchemaValidator(mgr).validate_schema()
ValidateSchema ==
    /\ mgr.constructed
    /\ LET r == SchemaValidator_validate_schema(mgr, fs)
       IN /\ report' = [op |-> "validate", res |-> r.res, raised |-> r.raised,
                        open |-> r.open, fsBefore |-> fs, mgrBefore |-> mgr,
                        fsAfter |-> r.fs, mgrAfter |-> r.mgr]
          /\ fs' = r.fs
          /\ mgr' = r.mgr
    /\ UNCHANGED extraVars
    /\ UNCHANGED <<pool, acq, lastAcq, stack, last, store, poolAux, init, monVars>>

\* SchemaValidator(mgr).get_schema_info()
GetSchemaInfo ==
    /\ mgr.constructed
    /\ LET r == SchemaValidator_get_schema_info(mgr, fs)
       IN /\ report' = [op |-> "info", res |-> r.res, raised |-> r.raised,
                        open |-> r.open, fsBefore |-> fs, mgrBefore |-> mgr,
                        fsAfter |-> r.fs, mgrAfter |-> r.mgr]
          /\ fs' = r.fs
          /\ mgr' = r.mgr
    /\ UNCHANGED extraVars
    /\ UNCHANGED <<pool, acq, lastAcq, stack, last, store, poolAux, init, monVars>>

\* ---------------------------------------------------- monitor operations
\* monitor.execute_with_monitoring(query, params); calls counts the calls
\* that returned normally
ExecuteWithMonitoring(q, prm) ==
    /\ calls[q] < MaxCalls
    /\ LET r == QueryPerformanceMonitor_execute_with_monitoring(query_stats, q, prm)
       IN /\ query_stats' = r.query_stats
          /\ calls' = IF r.raised = "none" THEN [calls EXCEPT ![q] = @ + 1]
                      ELSE calls
          /\ lastExec' = [op |-> "execute", query |-> q, params |-> prm,
                          rows |-> r.rows, raised |-> r.raised, open |-> r.open,
                          executed |-> r.executed]
    /\ UNCHANGED extraVars
    /\ UNCHANGED <<pool, acq, lastAcq, stack, last, store, poolAux, schemaVars, lastReport>>

\* monitor.get_performance_report()
GetPerformanceReport ==
    /\ LET r == QueryPerformanceMonitor_get_performance_report(query_stats)
       IN /\ query_stats' = r.query_stats
          /\ lastReport' = [op |-> "report", report |-> r.report,
                            scopes |-> r.scopes, statsBefore |-> query_stats,
                            statsAfter |-> r.query_stats]
    /\ UNCHANGED extraVars
    /\ UNCHANGED <<pool, acq, lastAcq, stack, last, store, poolAux, schemaVars, calls, lastExec>>

\* --------------------------------------------------- settings operations
\* DatabaseSettings(pool_size=...) or DatabaseSettings() under DATABASE_POOL_SIZE
ConstructDatabaseSettings(arg) ==
    /\ LET r == DatabaseSettings_init(arg, fs)
       IN /\ settings' = [op |-> "DatabaseSettings", arg |-> arg,
                          constructed |-> r.constructed, raised |-> r.raised,
                          pool_size |-> r.pool_size, dirBefore |-> fs.dir]
          /\ fs' = r.fs
    /\ UNCHANGED <<cacheDir, genVars>>
    /\ UNCHANGED <<pool, acq, lastAcq, stack, last, store, poolAux, mgr, init,
                   report, monVars>>

\* CacheSettings(): the validator of dir makes ./cache
ConstructCacheSettings ==
    /\ LET r == CacheSettings_init(cacheDir)
       IN /\ settings' = [op |-> "CacheSettings", arg |-> NotGiven,
                          constructed |-> r.raised = "none", raised |-> r.raised,
                          pool_size |-> 0, cacheBefore |-> cacheDir]
          /\ cacheDir' = r.cache
    /\ UNCHANGED <<fs, genVars>>
    /\ UNCHANGED <<pool, acq, lastAcq, stack, last, store, poolAux, mgr, init,
                   report, monVars>>

\* Settings(environment=..., debug=...) under SECRET_KEY and DATABASE_POOL_SIZE
ConstructSettings(environment, debug, secret_key, pool_arg) ==
    /\ LET r == Settings_init(environment, debug, secret_key, pool_arg, fs,
                              cacheDir)
       IN /\ settings' = [op |-> "Settings", arg |-> pool_arg,
                          environment |-> environment,
                          debug |-> debug, secret_key |-> secret_key,
                          constructed |-> r.constructed, raised |-> r.raised,
                          cause |-> r.cause, pool_size |-> r.pool_size,
                          dirBefore |-> fs.dir, cacheBefore |-> cacheDir]
          /\ fs' = r.fs
          /\ cacheDir' = r.cache
    /\ UNCHANGED genVars
    /\ UNCHANGED <<pool, acq, lastAcq, stack, last, store, poolAux, mgr, init,
                   report, monVars>>

\* -------------------------------------------------- generator operations
\* generator.generate_citation_network(paper_ids), with the values that
\* random.randint returns during the call
GenerateCitationNetwork(paper_ids, nums) ==
    /\ lastGen' = [op |-> "generate", paper_ids |-> paper_ids, nums |-> nums,
                   citations |->
                       SampleDataGenerator_generate_citation_network(paper_ids, nums)]
    /\ UNCHANGED cfgVars
    /\ UNCHANGED <<pool, acq, lastAcq, stack, last, store, poolAux, schemaVars, monVars>>

\* generator.populate_database(num_authors, num_papers)
PopulateDatabase(num_authors, num_papers, nums) ==
    /\ LET r == SampleDataGenerator_populate_database(num_authors, num_papers,
                                                      nums, store)
       IN /\ lastGen' = [op |-> "populate", num_authors |-> num_authors,
                         num_papers |-> num_papers, scopes |-> r.scopes,
                         failedStep |-> r.failedStep, wrote |-> r.wrote,
                         raised |-> r.raised, ev |-> r.ev,
                         before |-> store, after |-> r.db,
                         authors |-> r.authors, papers |-> r.papers,
                         citations |-> r.citations]
          /\ store' = r.db
    /\ UNCHANGED cfgVars
    /\ UNCHANGED <<pool, acq, lastAcq, stack, last, poolAux, schemaVars, monVars>>

\* ------------------------------------------------------- specifications
\* callers using the manager's scopes
Next ==
    \/ \E t \in Callers : OpenConnection(t)
    \/ \E t \in Callers : OpenTransaction(t)
    \/ \E t \in Callers, e \in CreateErrors : OpenFails(t, e)
    \/ \E t \in Callers, row \in Rows : BodyWrite(t, row)
    \/ \E t \in Callers, e \in BodyErrors : BodyRaise(t, e)
    \/ \E t \in Callers : BodyReturn(t)

Spec == Init /\ [][Next]_vars

\* a pool of any size N >= 1
PoolInit ==
    /\ pool \in {ConnectionPool_init("db", n) : n \in 1..MaxPool}
    /\ acq = [t \in Callers |-> <<>>]
    /\ lastAcq = NoAcq
    /\ stack = [t \in Callers |-> <<>>]
    /\ last = NoLast
    /\ store = {}
    /\ PoolAuxInit
    /\ SchemaIdle
    /\ MonitorIdle
    /\ ConfigIdle
    /\ GeneratorIdle

\* callers using a ConnectionPool directly
PoolNext ==
    \/ \E t \in Callers : PoolGet(t)
    \/ \E t \in Callers : PoolReturn(t)
    \/ \E t \in Callers, inTxn, healthy \in BOOLEAN : PoolReturnOther(t, inTxn, healthy)
    \/ \E t \in Callers : PoolCloseAll(t)

PoolSpec == PoolInit /\ [][PoolNext]_vars

\* callers using the manager's scopes and a pool at the same time, each
\* inside at most MaxShared scopes and holding at most MaxShared pool handles
SharingNext ==
    \/ \E t \in Callers : Len(stack[t]) < MaxShared /\ OpenConnection(t)
    \/ \E t \in Callers : Len(stack[t]) < MaxShared /\ OpenTransaction(t)
    \/ \E t \in Callers : BodyReturn(t)
    \/ \E t \in Callers : Len(acq[t]) < MaxShared /\ PoolGet(t)
    \/ \E t \in Callers : PoolReturn(t)

SharingSpec == Init /\ [][SharingNext]_vars

\* a manager built on any state of the disk, then its validator
SchemaInit ==
    /\ \/ /\ fs \in FsStates
          /\ mgr = NoManager
          /\ init = NoInit
          /\ report = NoReport
       \/ ManagerBuiltEarlier
    /\ pool = ConnectionPool_init("db", DefaultPoolSize)
    /\ acq = [t \in Callers |-> <<>>]
    /\ lastAcq = NoAcq
    /\ stack = [t \in Callers |-> <<>>]
    /\ last = NoLast
    /\ store = {}
    /\ PoolAuxInit
    /\ MonitorIdle
    /\ ConfigIdle
    /\ GeneratorIdle

SchemaNext ==
    \/ \E w \in BOOLEAN : Construct(w)
    \/ Reinitialize
    \/ ValidateSchema
    \/ GetSchemaInfo

SchemaSpec == SchemaInit /\ [][SchemaNext]_vars

\* a monitor on a manager that was built on an empty disk
MonitorInit ==
    /\ ManagerBuilt
    /\ pool = ConnectionPool_init("db", DefaultPoolSize)
    /\ acq = [t \in Callers |-> <<>>]
    /\ lastAcq = NoAcq
    /\ stack = [t \in Callers |-> <<>>]
    /\ last = NoLast
    /\ store = {}
    /\ PoolAuxInit
    /\ MonitorIdle
    /\ ConfigIdle
    /\ GeneratorIdle

MonitorNext ==
    \/ \E q \in Queries, prm \in Params : ExecuteWithMonitoring(q, prm)
    \/ GetPerformanceReport

MonitorSpec == MonitorInit /\ [][MonitorNext]_vars

\* settings objects built from any supplied values, in a working directory
\* in which ./data and ./cache are absent, directories or regular files
ConfigInit ==
    /\ settings = NoSettings
    /\ cacheDir \in DirStates
    /\ fs \in {[FreshDisk EXCEPT !.dir = x] : x \in DirStates}
    /\ mgr = NoManager
    /\ init = NoInit
    /\ report = NoReport
    /\ GeneratorIdle
    /\ pool = ConnectionPool_init("db", DefaultPoolSize)
    /\ acq = [t \in Callers |-> <<>>]
    /\ lastAcq = NoAcq
    /\ stack = [t \in Callers |-> <<>>]
    /\ last = NoLast
    /\ store = {}
    /\ PoolAuxInit
    /\ MonitorIdle

ConfigNext ==
    \/ \E arg \in PoolSizeInputs : ConstructDatabaseSettings(arg)
    \/ ConstructCacheSettings
    \/ \E environment \in Environments, debug \in BOOLEAN,
          secret_key \in SecretKeys, pool_arg \in SettingsPoolInputs :
            ConstructSettings(environment, debug, secret_key, pool_arg)

ConfigSpec == ConfigInit /\ [][ConfigNext]_vars

\* a generator on a manager that was built on an empty disk
GeneratorInit ==
    /\ GeneratorIdle
    /\ ConfigIdle
    /\ ManagerBuilt
    /\ pool = ConnectionPool_init("db", DefaultPoolSize)
    /\ acq = [t \in Callers |-> <<>>]
    /\ lastAcq = NoAcq
    /\ stack = [t \in Callers |-> <<>>]
    /\ last = NoLast
    /\ store = {}
    /\ PoolAuxInit
    /\ MonitorIdle

GeneratorNext ==
    \/ \E n \in 0..MaxPapers :
          \E paper_ids \in [1..n -> PaperIds], nums \in [1..n -> CitationDraws] :
              GenerateCitationNetwork(paper_ids, nums)
    \/ \E num_authors, num_papers \in CountInputs :
          \E nums \in [1..num_papers.n -> CitationDraws] :
              PopulateDatabase(num_authors, num_papers, nums)

GeneratorSpec == GeneratorInit /\ [][GeneratorNext]_vars

\* --------------------------------------------------------------- claims
IsClose(e) == e = "close"

\* handles held by callers that are connections (None is not one)
CheckedOut ==
    Cardinality({<<t, i>> \in Callers \X (1..MaxHeld + 1) :
                    i \in DOMAIN acq[t] /\ Truthy(acq[t][i])})

\* C1: whatever the pool size and however acquire and release calls of the
\* callers interleave, the number of connections checked out of the pool at
\* one time never exceeds pool_size.
C1_CheckedOutWithinPoolSize == CheckedOut <= pool.pool_size

\* more acquire calls are outstanding than the pool has slots
C1_Witness ==
    /\ lastAcq.caller # 0
    /\ Outstanding > pool.pool_size
    /\ CheckedOut <= pool.pool_size

\* C2: every scope opened by get_connection or get_transaction has released
\* (closed) the connection it acquired exactly once by the time it has been
\* left, however it was left.
C2_ReleasedExactlyOnce ==
    last.kind # "none" => Len(SelectSeq(last.ev, IsClose)) = 1

\* C3: when the body of a get_transaction scope raises, the committed store
\* is, once the scope has been left, what it was when the scope began.
C3_RollbackCompleteness ==
    (last.kind = "txn" /\ last.bodyErr # "none") => last.after = last.snap

\* a transaction scope whose body issued a write and raised has been left
C3_Witness ==
    /\ last.kind = "txn"
    /\ last.bodyErr # "none"
    /\ last.outcome # "ok"
    /\ last.wrote # {}
    /\ last.after = last.snap

\* C4: when the body of a get_transaction scope raises nothing of its own,
\* every write it issued is in the committed store once the scope has been
\* left.
C4_CommitVisibility ==
    (last.kind = "txn" /\ ~last.explicit) => last.wrote \subseteq last.after

\* C5: when the body of a get_connection or get_transaction scope raises,
\* the caller of the scope receives that same error; it is neither swallowed
\* nor replaced.
C5_OriginalErrorPropagates ==
    (last.kind # "none" /\ last.bodyErr # "none") => last.outcome = last.bodyErr

\* an error raised in the body of a get_transaction scope, which passes the
\* handlers of both generators, has reached the caller
C5_Witness ==
    /\ last.kind = "txn"
    /\ last.bodyErr = "ValueError"
    /\ last.outcome = "ValueError"

\* C6: an acquire call made while pool_size acquisitions are outstanding
\* ends with PoolExhausted.
C6_ExhaustedPoolRaises ==
    (lastAcq.caller # 0 /\ lastAcq.busy >= pool.pool_size)
        => lastAcq.raised = "PoolExhausted"

\* C7: get_transaction is never open twice on one handle: the nested call
\* fails with TransactionAlreadyOpen instead of entering a second scope.
C7_NoNestedTransaction ==
    \A t \in Callers : \A i, j \in DOMAIN stack[t] :
        (i # j /\ stack[t][i].kind = "txn" /\ stack[t][j].kind = "txn")
            => stack[t][i].conn # stack[t][j].conn

\* the handles a caller holds: those of the manager scopes it is inside and
\* those it got from the pool and has not given back
Held(t) ==
    {stack[t][i].conn : i \in DOMAIN stack[t]} \cup
    {acq[t][i] : i \in DOMAIN acq[t]}

\* C8: no connection object, whether it was obtained through the manager or
\* through the pool, is held by two callers at the same time.
C8_NoSharedConnection ==
    \A t, u \in Callers :
        t # u => \A c \in Held(t) : Truthy(c) => c \notin Held(u)

\* two callers are inside scopes of the manager and hold handles from the
\* pool, all at the same time
C8_Witness ==
    \E t, u \in Callers :
        /\ t # u
        /\ stack[t] # <<>> /\ stack[u] # <<>>
        /\ acq[t] # <<>> /\ acq[u] # <<>>

\* C9: the connection of a transaction scope goes idle -> begun ->
\* (committed | rolled_back) -> idle: it is begun first, an error in the
\* body leads to a rollback and never to a commit, a normal end to a commit.
C9_TransactionStateMachine ==
    last.kind = "txn" =>
        /\ Len(last.ev) >= 2
        /\ last.ev[1] = "begin"
        /\ last.ev[2] = (IF last.bodyErr = "none" THEN "commit" ELSE "rollback")
        /\ (last.bodyErr # "none" =>
               \A i \in DOMAIN last.ev : last.ev[i] # "commit")

\* C10: when the body of a get_connection scope raises after it has issued a
\* write, the transaction is rolled back, then the connection is released,
\* and the error reaches the caller.
C10_RollbackBeforeRelease ==
    (last.kind = "conn" /\ IsException(last.bodyErr) /\ last.wrote # {})
        => (last.ev = <<"rollback", "close">> /\ last.outcome = last.bodyErr)

\* C11: towards other connections a transaction's writes are visible all
\* together or not at all: while any of them is visible the transaction adds
\* no further write, and once the scope has been left either none or all of
\* its writes are in the committed store.
C11_Step ==
    \A t \in Callers : \A i \in DOMAIN stack[t] :
        LET f == stack[t][i]
            vis == (store \cap f.wrote) \ f.snap
        IN (f.kind = "txn" /\ vis # {}) =>
              /\ i \in DOMAIN stack'[t] => stack'[t][i].wrote = f.wrote
              /\ i \notin DOMAIN stack'[t] =>
                    (last'.after \cap last'.wrote) \ last'.snap
                        \in {{}, last'.wrote \ last'.snap}

C11_AtomicVisibility == [][C11_Step]_vars

\* a transaction scope that issued a write has been left while another
\* caller is inside a scope, and none of the writes is visible there
C11_Witness ==
    /\ last.kind = "txn"
    /\ last.wrote # {}
    /\ (store \cap last.wrote) \ last.snap = {}
    /\ \E u \in Callers : stack[u] # <<>>

\* C12: every acquire call made after close_all() was called fails with
\* PoolClosed.
C12_AcquireAfterCloseFails ==
    (lastAcq.caller # 0 /\ lastAcq.closed) => lastAcq.raised = "PoolClosed"

\* C13: return_connection puts a healthy connection without a pending
\* transaction back into the pool's idle set and keeps any other connection
\* out of it.
C13_ReleaseReturnsToIdle ==
    (lastRel.op = "return" /\ Truthy(lastRel.conn)) =>
        (lastRel.idleAfter <=> (lastRel.healthy /\ ~lastRel.inTxn))

\* C14: running _initialize_database a second time, on the disk as the first
\* run left it, succeeds and leaves the disk as the first run left it.
C14_InitializeIdempotent ==
    (init.runs >= 2 /\ init.firstRes = "ok" /\ init.before = init.first) =>
        (init.res = "ok" /\ fs = init.first)

\* the first run created the directory and a second run has been made on
\* the disk it left
C14_Witness ==
    /\ init.runs >= 2
    /\ init.firstRes = "ok"
    /\ init.created
    /\ init.before = init.first
    /\ fs = init.first

\* C15: with a schema script that exists but cannot be parsed or executed
\* (its content is not SQL, or its bytes cannot be decoded),
\* _initialize_database fails with SchemaInitError.
C15_BrokenSchemaRaises ==
    (init.runs >= 1 /\ init.before.schema \in {"not_sql", "undecodable"}) =>
        init.res = "SchemaInitError"

\* C16: validate_schema() reports valid exactly when no expected table or
\* index is missing and the full-text-search table exists, with no issues
\* then, and names every missing table in issues.
C16_ValidIffComplete ==
    report.op = "validate" =>
        LET complete == /\ ExpectedTables \subseteq report.fsBefore.tables
                        /\ report.fsBefore.indexes
                        /\ report.fsBefore.fts
        IN /\ report.res.valid <=> complete
           /\ complete => report.res.issues = {}
           /\ (ExpectedTables \ report.fsBefore.tables) \subseteq report.res.issues

\* C17: validate_schema() and get_schema_info() leave the disk and the
\* manager as they were and leave no connection open.
C17_ValidatorReadOnly ==
    report.op # "none" =>
        /\ report.fsAfter = report.fsBefore
        /\ report.mgrAfter = report.mgrBefore
        /\ report.open = 0

\* validate_schema has run on a database with a table missing
C17_Witness ==
    /\ report.op = "validate"
    /\ ExpectedTables \ report.fsBefore.tables # {}
    /\ fs = report.fsBefore

\* C18: query_stats has exactly one entry per query text that was executed,
\* and its count is the number of calls made with that text.
C18_OneStatPerQuery ==
    /\ DOMAIN query_stats = {q \in Queries : calls[q] > 0}
    /\ \A q \in Queries :
          calls[q] > 0 => (q \in DOMAIN query_stats /\ query_stats[q].count = calls[q])

\* C19: get_performance_report() enters no get_connection scope and leaves
\* query_stats as it was.
C19_ReportInMemoryOnly ==
    lastReport.op = "report" =>
        /\ lastReport.scopes = 0
        /\ lastReport.statsAfter = lastReport.statsBefore

\* a report was produced after monitored calls had been made
C19_Witness ==
    /\ lastReport.op = "report"
    /\ \E q \in Queries : calls[q] > 0
    /\ lastReport.scopes = 0

\* C20: execute_with_monitoring of a query whose execution fails raises
\* QueryExecutionError and returns no rows.
C20_FailedQueryRaises ==
    (lastExec.op = "execute" /\ lastExec.query = "bad") =>
        lastExec.raised = "QueryExecutionError"

\* C21: execute_with_monitoring returns an empty row list only when the
\* query was really executed (and produced no rows); a call that ran nothing
\* does not come back with an empty result.
C21_EmptyOnlyWhenExecuted ==
    (lastExec.op = "execute" /\ lastExec.raised = "none" /\ lastExec.rows = <<>>)
        => lastExec.executed >= 1

\* C22: a DatabaseSettings built with a pool_size below 1 or above 20 is
\* rejected with a validation error, and every DatabaseSettings that was
\* built has a pool_size from 1 to 20.
C22_PoolSizeWithinRange ==
    settings.op = "DatabaseSettings" =>
        /\ (settings.arg.given /\ (settings.arg.v < 1 \/ settings.arg.v > 20))
              => (settings.raised = "ValidationError" /\ ~settings.constructed)
        /\ settings.constructed
              => (settings.pool_size >= 1 /\ settings.pool_size <= 20)

\* C22, amended: a DatabaseSettings built with a pool_size below 1 or above
\* 20 is rejected, with a validation error unless a regular file stands in
\* the place of the data directory (then with the FileExistsError of the path
\* validator), and every DatabaseSettings that was built has a pool_size from
\* 1 to 20.
C22_PoolSizeWithinRangeOrNoDirectory ==
    settings.op = "DatabaseSettings" =>
        /\ (settings.arg.given /\ (settings.arg.v < 1 \/ settings.arg.v > 20))
              => /\ ~settings.constructed
                 /\ settings.dirBefore # "file" => settings.raised = "ValidationError"
                 /\ settings.dirBefore = "file" => settings.raised = "FileExistsError"
        /\ settings.constructed
              => (settings.pool_size >= 1 /\ settings.pool_size <= 20)

\* a pool_size just above the range was supplied and rejected, after the
\* data directory had been made
C22_Witness ==
    /\ settings.op = "DatabaseSettings"
    /\ settings.arg = Given(PoolSizeMax + 1)
    /\ settings.dirBefore = "absent"
    /\ fs.dir = "dir"
    /\ settings.raised = "ValidationError"
    /\ ~settings.constructed

\* C23: no call of get_connection or return_connection (nor any other call
\* on the pool) changes the pool_size or the db_path the pool was built with.
C23_Step ==
    /\ pool'.pool_size = pool.pool_size
    /\ pool'.db_path = pool.db_path

C23_PoolConfigFixed == [][C23_Step]_vars

\* connections were acquired and handed back, and the pool is as it was built
C23_Witness ==
    /\ lastAcq.caller # 0
    /\ lastRel.op = "return"
    /\ \E t \in Callers : acq[t] # <<>>
    /\ pool \in {ConnectionPool_init("db", n) : n \in 1..MaxPool}

\* C24: when get_connection fails before it has a connection, its cleanup
\* calls neither rollback nor close, and the caller receives the error that
\* arose, not one raised by the cleanup.
C24_FailedCreationPropagates ==
    last.kind = "enter" => (last.ev = <<>> /\ last.outcome = last.bodyErr)

\* an error that the except clause catches arose before the yield and has
\* reached the caller
C24_Witness ==
    /\ last.kind = "enter"
    /\ last.bodyErr = "MemoryError"
    /\ last.outcome = "MemoryError"
    /\ last.ev = <<>>

\* C25: populate_database runs all its steps inside one get_transaction
\* scope and passes an error of any step on to its caller; after a failure of
\* a later step the committed store is what it was before the call.
C25_PopulateAllOrNothing ==
    lastGen.op = "populate" =>
        /\ lastGen.scopes = 1
        /\ lastGen.failedStep # 0 =>
              /\ lastGen.raised = "TypeError"
              /\ lastGen.after = lastGen.before
              /\ lastGen.wrote \cap lastGen.after \subseteq lastGen.before

\* the authors step went through and the papers step failed
C25_Witness ==
    /\ lastGen.op = "populate"
    /\ lastGen.failedStep = 2
    /\ lastGen.authors >= 1
    /\ lastGen.raised = "TypeError"
    /\ lastGen.after = lastGen.before

\* C26: a Settings built with an environment that is, whatever its case,
\* 'production' or 'prod' fails with a ValueError whenever the secret key is
\* the development default or debug is true.
C26_ProductionRejectsDevSettings ==
    (/\ settings.op = "Settings"
     /\ Lower(settings.environment) \in {Production, Prod}
     /\ (settings.secret_key = DevSecretKey \/ settings.debug))
        => (IsValueError(settings.raised) /\ ~settings.constructed)

\* the first check of a Settings call to fail is the mkdir of a directory
\* validator: a regular file stands in the place of the data directory, or
\* the database section is valid and a regular file stands in the place of
\* the cache directory
MkdirFailsFirst ==
    \/ settings.dirBefore = "file"
    \/ /\ settings.cacheBefore = "file"
       /\ ~(/\ settings.arg.given
            /\ (settings.arg.v < PoolSizeMin \/ settings.arg.v > PoolSizeMax))

\* C26, amended: a Settings built with an environment that is, whatever its
\* case, 'production' or 'prod' fails whenever the secret key is the
\* development default or debug is true: with the FileExistsError of a
\* directory validator exactly when its mkdir is the first check to fail,
\* and with a ValueError (pydantic's ValidationError) in every other case.
C26_ProductionRejectsDevSettingsOrNoDirectory ==
    (/\ settings.op = "Settings"
     /\ Lower(settings.environment) \in {Production, Prod}
     /\ (settings.secret_key = DevSecretKey \/ settings.debug))
        => /\ ~settings.constructed
           /\ MkdirFailsFirst => settings.raised = "FileExistsError"
           /\ ~MkdirFailsFirst => IsValueError(settings.raised)

\* an upper-case 'PROD' with a changed secret key and debug on was rejected
\* by model_post_init
C26_Witness ==
    /\ settings.op = "Settings"
    /\ settings.environment = <<"P", "R", "O", "D">>
    /\ settings.secret_key = "s3cret"
    /\ settings.debug
    /\ ~settings.arg.given
    /\ settings.dirBefore = "absent"
    /\ settings.raised = "ValidationError"
    /\ settings.cause = "DEBUG must be False in production"

\* C27: in every citation that generate_citation_network returns the citing
\* paper differs from the cited paper, the cited paper id is not empty, and
\* no citing paper has more than 60 citations in the list.
C27_CitationsWellFormed ==
    lastGen.op = "generate" =>
        /\ \A i \in DOMAIN lastGen.citations :
              /\ lastGen.citations[i].citing_paper_id
                    # lastGen.citations[i].cited_paper_id
              /\ IdTruthy(lastGen.citations[i].cited_paper_id)
        /\ \A p \in PaperIds :
              Cardinality({i \in DOMAIN lastGen.citations :
                              lastGen.citations[i].citing_paper_id = p}) <= 60

\* the network was generated for a full list of papers, one of them with the
\* largest number of citation draws
C27_Witness ==
    /\ lastGen.op = "generate"
    /\ Len(lastGen.paper_ids) = MaxPapers
    /\ \E i \in DOMAIN lastGen.nums : lastGen.nums[i] = MaxCitations
    /\ \A i \in DOMAIN lastGen.citations :
          IdTruthy(lastGen.citations[i].cited_paper_id)

\* C28: a constructor call of DatabaseManager runs _initialize_database
\* exactly once, and when it returns, with a manager or with an error, no
\* connection opened by the initialization is open or kept by the manager.
C28_Step ==
    (~mgr.constructed /\ init' # init) =>
        /\ init'.runs = init.runs + 1
        /\ init'.open = 0
        /\ mgr'.connection = NoneConn

C28_ConstructorInitializesOnce == [][C28_Step]_vars

\* a manager was built on a disk with a schema script, by the one run of the
\* initialization that the constructor made, and holds no connection
C28_Witness ==
    /\ mgr.constructed
    /\ init.runs = 1
    /\ init.res = "ok"
    /\ fs.schema = "valid"
    /\ init.first.schema = "valid"
    /\ init.open = 0
    /\ mgr.connection = NoneConn

====
